---- MODULE Spec2Model ----
(* Model of the vide window/event bridge: src/vide/src/window.rs (WindowWrapper *)
(* and ui_loop), src/vide/src/events.rs (UiEvent) and the reference embedding  *)
(* src/vide/examples/hello.rs (Handler).  The redraw scheduler and the         *)
(* keybinding encoder (crate::redraw_scheduler, crate::keyboard) are modelled  *)
(* from their contracts.                                                       *)
EXTENDS Integers, Sequences, FiniteSets, TLC

(***************************************************************************)
(* Bounds of the model                                                     *)
(***************************************************************************)
\* largest number of raw events the platform hands over in one poll
MaxBatch == 2
\* largest number of toggle_fullscreen calls made between two frames
MaxToggles == 2
\* largest batch of raw events in the runs that also call toggle_fullscreen
MaxBatchFS == 1

(***************************************************************************)
(* Program constants                                                       *)
(***************************************************************************)
\* the placeholder cell size of window.rs:56-57 and 182-183
CellSize == 10
\* hello.rs:15  ui_loop(Handler { }, (64, 64))
InitialWidth == 64
InitialHeight == 64
\* window.rs:329  Duration::from_secs_f32(1.0 / 144.0), in microseconds
FrameLength == 6944

(***************************************************************************)
(* Input domains                                                           *)
(***************************************************************************)
None == "None"
Keycodes == {"A", "Escape"}
PrintableKeycodes == {"A"}
Texts == {"a", "b"}
ModifierSets == {{}, {"Ctrl"}}
PixelXs == {-5, 9, 25}
PixelYs == {0, 10}
WheelDeltas == {-3, 0, 5}
ScaleFactors == {1, 2}
TargetOS == {"windows", "other"}
\* the monitor under the window (display_bounds)
DisplayRect == [x |-> 0, y |-> 0, w |-> 1920, h |-> 1080]
\* sizes the user can give the window
UserSizes == {<<800, 600>>}
\* what frame_start.elapsed() can measure, in microseconds
ElapsedTimes == {1000, 6944, 9000}

VARIABLES
    pc,                      \* position of ui_loop
    pending,                 \* raw events still queued in event_pump.poll_iter()
    drained,                 \* raw events drained so far in this iteration
    cur,                     \* the raw event the poll loop drained last
    keycode, keytext,        \* window.rs:286-287
    key_index,               \* index in the batch of the raw event that last wrote keycode/keytext
    overwritten,             \* the keycode and the text of this batch that a later write replaced
    ignore_text_this_frame,  \* window.rs:288
    key_call,                \* the handle_keyboard_input call of this iteration, if any
    mouse_down, mouse_position, previous_size,
    fullscreen, cached_size, cached_position,   \* WindowWrapper fields
    window,                  \* the sdl2 window: size, position, fullscreen type, resizable
    scale_factor,            \* Sdl2Window::scale_factor()
    target_os,               \* cfg!(target_os = "windows")
    REDRAW_SCHEDULER,        \* the process-wide redraw scheduler
    queued_calls,            \* queue_next_frame() calls since the last should_draw()
    should_draw_log,         \* the last should_draw() call: calls queued before it, and its result
    sink,                    \* events delivered to the handler in this iteration, with their cause
    fs_log,                  \* bookkeeping of successive toggle_fullscreen calls
    sleep_log                \* the pacing of the iteration that just ended: elapsed time and sleep

loopVars == <<pc, pending, drained, cur>>
keyVars == <<keycode, keytext, key_index, overwritten, ignore_text_this_frame>>
mouseVars == <<mouse_down, mouse_position>>
fsVars == <<fullscreen, cached_size, cached_position>>
platformVars == <<window, scale_factor, target_os>>
schedVars == <<REDRAW_SCHEDULER, queued_calls, should_draw_log>>
vars == <<pc, pending, drained, cur, keycode, keytext, key_index, overwritten,
          ignore_text_this_frame, key_call, mouse_down, mouse_position, previous_size,
          fullscreen, cached_size, cached_position, window, scale_factor,
          target_os, REDRAW_SCHEDULER, queued_calls, should_draw_log, sink, fs_log,
          sleep_log>>

(***************************************************************************)
(* events.rs: UiEvent                                                      *)
(***************************************************************************)
UiEvent(type, arg, x, y) == [type |-> type, arg |-> arg, x |-> x, y |-> y]
Quit == UiEvent("Quit", "", 0, 0)
KeyboardInput(s) == UiEvent("KeyboardInput", s, 0, 0)
MouseDragged(x, y) == UiEvent("MouseDragged", "", x, y)
MousePressed(x, y) == UiEvent("MousePressed", "", x, y)
MouseReleased(x, y) == UiEvent("MouseReleased", "", x, y)
Scroll(direction, x, y) == UiEvent("Scroll", direction, x, y)
FocusLost == UiEvent("FocusLost", "", 0, 0)
FocusGained == UiEvent("FocusGained", "", 0, 0)

\* a raw sdl2 event
RawEvent(kind, arg, x, y) == [kind |-> kind, arg |-> arg, x |-> x, y |-> y]
NoEvent == RawEvent("NoEvent", "", 0, 0)

(***************************************************************************)
(* hello.rs: Handler                                                       *)
(***************************************************************************)
\* variant: a handler that returns from every event
handle_ui_event_returns(event) == FALSE

\* the handler ends the process on Quit and ignores every other event
handle_ui_event_exits(event) == event.type = "Quit"

\* the sink after event_handler.handle_ui_event(event), called for raw event number cause
handle_ui_event(s, event, cause) == Append(s, [ev |-> event, cause |-> cause])

(***************************************************************************)
(* crate::redraw_scheduler (contract)                                      *)
(***************************************************************************)
queue_next_frame(s) == [s EXCEPT !.frame_requested = TRUE]
should_draw(s) == s.frame_requested
\* variant: should_draw() that leaves the flag set
should_draw_keep(s) == s
should_draw_clear(s) == [s EXCEPT !.frame_requested = FALSE]

(***************************************************************************)
(* crate::keyboard (contract)                                              *)
(***************************************************************************)
\* variant: a chord token even without a key
produce_keybinding_string_chord(kc, text, modifiers) ==
    IF "Ctrl" \in modifiers
    THEN "<C-" \o (IF kc # None THEN kc ELSE IF text # None THEN text ELSE "") \o ">"
    ELSE IF text # None THEN text
    ELSE IF kc # None /\ kc \notin PrintableKeycodes THEN "<" \o kc \o ">"
    ELSE None

produce_keybinding_string(kc, text, modifiers) ==
    IF kc = None /\ text = None THEN None
    ELSE IF text # None /\ "Ctrl" \notin modifiers THEN text
    ELSE IF kc # None /\ "Ctrl" \in modifiers THEN "<C-" \o kc \o ">"
    ELSE IF kc # None /\ kc \notin PrintableKeycodes THEN "<" \o kc \o ">"
    ELSE IF text # None THEN "<C-" \o text \o ">"
    ELSE None

(***************************************************************************)
(* Conversions                                                             *)
(***************************************************************************)
\* floor(log2(n)) for 1 <= n < 2^31
floor_log2(n) == CHOOSE e \in 0..30 : n \div (2 ^ e) = 1

\* n / d rounded to the nearest integer, ties to even (the rounding of f32 and f64)
round_half_even(n, d) ==
    LET q == n \div d
        r == n % d
    IN IF 2 * r < d THEN q
       ELSE IF 2 * r > d THEN q + 1
       ELSE IF q % 2 = 0 THEN q ELSE q + 1

\* x as f32, for 0 <= x < 2^31: the value m * 2^a with the 24-bit significand m
i32_as_f32(x) ==
    IF x < 2 ^ 24 THEN [m |-> x, a |-> 0]
    ELSE LET a == floor_log2(x) - 23
             m == round_half_even(x, 2 ^ a)
         IN IF m = 2 ^ 24 THEN [m |-> 2 ^ 23, a |-> a + 1] ELSE [m |-> m, a |-> a]

\* (f / 10.0) as u32 for the f32 value f = m * 2^a: the quotient n / d is rounded to a
\* 24-bit significand and then truncated
f32_div_cell_as_u32(f) ==
    LET n == IF f.a = 0 THEN f.m ELSE f.m * 2 ^ (f.a - 1)
        d == IF f.a = 0 THEN CellSize ELSE CellSize \div 2
    IN IF n < d THEN 0
       ELSE LET e == floor_log2(n \div d)
            IN IF e >= 23
               THEN round_half_even(n, d * 2 ^ (e - 23)) * 2 ^ (e - 23)
               ELSE round_half_even(n * 2 ^ (23 - e), d) \div 2 ^ (23 - e)

\* (x as f32 / 10.0) as u32 : the division is made in f32, the cast truncates and
\* saturates a negative value to 0
pixel_to_cell(x) == IF x < 0 THEN 0 ELSE f32_div_cell_as_u32(i32_as_f32(x))

\* PhysicalSize::to_logical : (v as f64 / scale_factor).round() as u32
to_logical(v, scale) == (2 * v + scale) \div (2 * scale)

\* Sdl2Window::logical_size
logical_size(w) == w.size

(***************************************************************************)
(* WindowWrapper::new and the start of ui_loop  (window.rs:45-102, 274-281) *)
(***************************************************************************)
InitialLogicalSize == <<InitialWidth * CellSize, InitialHeight * CellSize + 1>>

\* position_centered() on the display
CenteredPosition ==
    <<DisplayRect.x + (DisplayRect.w - InitialLogicalSize[1]) \div 2,
      DisplayRect.y + (DisplayRect.h - InitialLogicalSize[2]) \div 2>>

\* no toggle_fullscreen call since the frame started
NoToggle == [streak |-> 0, ok |-> TRUE, failed |-> FALSE, size |-> <<0, 0>>,
             position |-> <<0, 0>>, first_fullscreen |-> FALSE,
             last_fullscreen |-> FALSE]
NoKeyCall == [called |-> FALSE, keycode |-> None, text |-> None]
\* no keycode and no text of this batch was replaced
NoOverwrite == [keycode |-> None, text |-> None]
NoShouldDraw == [calls |-> 0, result |-> FALSE, count |-> 0, resized |-> FALSE]
\* prev_over: the iteration before took longer than the frame length
NoSleep == [count |-> 0, elapsed |-> 0, slept |-> 0, prev_over |-> FALSE]

InitOn(os) ==
    /\ pc = "frame_start"
    /\ pending = 0
    /\ drained = 0
    /\ cur = NoEvent
    /\ keycode = None
    /\ keytext = None
    /\ key_index = 0
    /\ overwritten = NoOverwrite
    /\ ignore_text_this_frame = FALSE
    /\ key_call = NoKeyCall
    /\ mouse_down = FALSE
    /\ mouse_position = <<0, 0>>
    /\ previous_size = InitialLogicalSize
    /\ fullscreen = FALSE
    /\ cached_size = <<0, 0>>
    /\ cached_position = <<0, 0>>
    /\ window = [size |-> InitialLogicalSize, position |-> CenteredPosition,
                 fullscreen_type |-> "Off", resizable |-> TRUE,
                 windowed_size |-> InitialLogicalSize,
                 windowed_position |-> CenteredPosition]
    /\ scale_factor \in ScaleFactors
    /\ target_os = os
    /\ REDRAW_SCHEDULER = [frame_requested |-> FALSE]
    /\ queued_calls = 0
    /\ should_draw_log = NoShouldDraw
    /\ sink = <<>>
    /\ fs_log = NoToggle
    /\ sleep_log = NoSleep

\* the build for the platform the model is run on
Init == InitOn("other")

(***************************************************************************)
(* WindowWrapper handlers  (window.rs:156-253)                             *)
(***************************************************************************)
\* handle_quit: the handler is called with Quit; the reference handler exits
handle_quit(cause) ==
    /\ sink' = handle_ui_event(sink, Quit, cause)
    /\ pc' = IF handle_ui_event_exits(Quit) THEN "exited" ELSE pc
    /\ UNCHANGED <<mouseVars, schedVars>>

handle_keyboard_input(kc, text, modifiers, cause) ==
    LET keybinding_string == produce_keybinding_string(kc, text, modifiers) IN
    /\ key_call' = [called |-> TRUE, keycode |-> kc, text |-> text]
    /\ sink' = IF keybinding_string # None
               THEN handle_ui_event(sink, KeyboardInput(keybinding_string), cause)
               ELSE sink

\* the logical position a pointer motion at pixel (x, y) gives
motion_position(x, y, scale) ==
    <<to_logical(pixel_to_cell(x), scale), to_logical(pixel_to_cell(y), scale)>>

\* variant: the drag test without mouse_down
handle_pointer_motion_anybutton(x, y, cause) ==
    LET previous_position == mouse_position
        new_position == motion_position(x, y, scale_factor) IN
    /\ mouse_position' = new_position
    /\ sink' = IF previous_position # new_position
               THEN handle_ui_event(sink, MouseDragged(new_position[1], new_position[2]), cause)
               ELSE sink
    /\ UNCHANGED <<mouse_down, schedVars, pc>>

\* variant: the drag test without the comparison of the positions
handle_pointer_motion_always(x, y, cause) ==
    LET new_position == motion_position(x, y, scale_factor) IN
    /\ mouse_position' = new_position
    /\ sink' = IF mouse_down
               THEN handle_ui_event(sink, MouseDragged(new_position[1], new_position[2]), cause)
               ELSE sink
    /\ UNCHANGED <<mouse_down, schedVars, pc>>

handle_pointer_motion(x, y, cause) ==
    LET previous_position == mouse_position
        new_position == motion_position(x, y, scale_factor) IN
    /\ mouse_position' = new_position
    /\ sink' = IF mouse_down /\ previous_position # new_position
               THEN handle_ui_event(sink, MouseDragged(new_position[1], new_position[2]), cause)
               ELSE sink
    /\ UNCHANGED <<mouse_down, schedVars, pc>>

handle_pointer_down(cause) ==
    /\ sink' = handle_ui_event(sink, MousePressed(mouse_position[1], mouse_position[2]), cause)
    /\ mouse_down' = TRUE
    /\ UNCHANGED <<mouse_position, schedVars, pc>>

\* variant: the release that leaves mouse_down set
handle_pointer_up_keeps_down(cause) ==
    /\ sink' = handle_ui_event(sink, MouseReleased(mouse_position[1], mouse_position[2]), cause)
    /\ UNCHANGED <<mouse_down, mouse_position, schedVars, pc>>

handle_pointer_up(cause) ==
    /\ sink' = handle_ui_event(sink, MouseReleased(mouse_position[1], mouse_position[2]), cause)
    /\ mouse_down' = FALSE
    /\ UNCHANGED <<mouse_position, schedVars, pc>>

\* variant: y >= 0 for y > 0
vertical_direction_ge(y) == IF y >= 0 THEN "Up" ELSE "Down"
vertical_direction(y) == IF y > 0 THEN "Up" ELSE IF y < 0 THEN "Down" ELSE None
horizontal_direction(x) == IF x > 0 THEN "Right" ELSE IF x < 0 THEN "Left" ELSE None

\* variant: the horizontal event first
wheel_sink_horizontal_first(s, x, y, pos, cause) ==
    LET s1 == IF horizontal_direction(x) # None
              THEN handle_ui_event(s, Scroll(horizontal_direction(x), pos[1], pos[2]), cause)
              ELSE s
    IN IF vertical_direction(y) # None
       THEN handle_ui_event(s1, Scroll(vertical_direction(y), pos[1], pos[2]), cause)
       ELSE s1

\* the sink after handle_mouse_wheel(x, y): the vertical event first, then the horizontal
wheel_sink(s, x, y, pos, cause) ==
    LET s1 == IF vertical_direction(y) # None
              THEN handle_ui_event(s, Scroll(vertical_direction(y), pos[1], pos[2]), cause)
              ELSE s
    IN IF horizontal_direction(x) # None
       THEN handle_ui_event(s1, Scroll(horizontal_direction(x), pos[1], pos[2]), cause)
       ELSE s1

handle_mouse_wheel(x, y, cause) ==
    /\ sink' = wheel_sink(sink, x, y, mouse_position, cause)
    /\ UNCHANGED <<mouseVars, schedVars, pc>>

handle_focus_lost(cause) ==
    /\ sink' = handle_ui_event(sink, FocusLost, cause)
    /\ UNCHANGED <<mouseVars, schedVars, pc>>

\* variant: focus-gained without the redraw request
handle_focus_gained_noqueue(cause) ==
    /\ sink' = handle_ui_event(sink, FocusGained, cause)
    /\ UNCHANGED <<mouseVars, schedVars, pc>>

handle_focus_gained(cause) ==
    /\ sink' = handle_ui_event(sink, FocusGained, cause)
    /\ REDRAW_SCHEDULER' = queue_next_frame(REDRAW_SCHEDULER)
    /\ queued_calls' = queued_calls + 1
    /\ UNCHANGED <<mouseVars, should_draw_log, pc>>

(***************************************************************************)
(* The sdl2 window                                                         *)
(***************************************************************************)
\* Window::set_fullscreen, when it succeeds
set_fullscreen(w, type) ==
    IF type = "Desktop"
    THEN [w EXCEPT !.fullscreen_type = "Desktop",
                   !.windowed_size = IF w.fullscreen_type = "Off" THEN w.size ELSE @,
                   !.windowed_position = IF w.fullscreen_type = "Off" THEN w.position ELSE @,
                   !.size = <<DisplayRect.w, DisplayRect.h>>,
                   !.position = <<DisplayRect.x, DisplayRect.y>>]
    ELSE [w EXCEPT !.fullscreen_type = "Off",
                   !.size = w.windowed_size,
                   !.position = w.windowed_position]

\* Window::set_size, when it succeeds: a fullscreen window keeps the display's size
set_size(w, sz) ==
    IF w.fullscreen_type = "Off"
    THEN [w EXCEPT !.size = sz, !.windowed_size = sz]
    ELSE [w EXCEPT !.windowed_size = sz]

\* Window::set_position
set_position(w, pos) ==
    IF w.fullscreen_type = "Off"
    THEN [w EXCEPT !.position = pos, !.windowed_position = pos]
    ELSE [w EXCEPT !.windowed_position = pos]

(***************************************************************************)
(* toggle_fullscreen  (window.rs:104-154)                                  *)
(***************************************************************************)
\* The outcome of toggle_fullscreen in a WindowWrapper with the fields fs (fullscreen),
\* cs (cached_size), cp (cached_position) and the window w, built for os, when the
\* platform answers fs_ok to set_fullscreen, size_ok to set_size and bounds_ok to
\* display_index/display_bounds.  panicked: a Result was unwrapped on an Err;
\* failed: one of the platform calls that were made failed.
\* variant: leaving fullscreen without the set_position call
toggle_leave_no_position(os, w, cs, cp, fs_ok, size_ok) ==
    LET w1 == IF os = "windows" THEN [w EXCEPT !.resizable = TRUE]
              ELSE IF fs_ok THEN set_fullscreen(w, "Off") ELSE w
        fs_failed == os # "windows" /\ ~fs_ok
    IN IF size_ok
       THEN [window |-> set_size(w1, cs), fullscreen |-> FALSE,
             cached_size |-> cs, cached_position |-> cp,
             panicked |-> FALSE, failed |-> fs_failed]
       ELSE [window |-> w1, fullscreen |-> TRUE,
             cached_size |-> cs, cached_position |-> cp,
             panicked |-> TRUE, failed |-> TRUE]

toggle_leave(os, w, cs, cp, fs_ok, size_ok) ==
    LET w1 == IF os = "windows" THEN [w EXCEPT !.resizable = TRUE]
              ELSE IF fs_ok THEN set_fullscreen(w, "Off") ELSE w
        fs_failed == os # "windows" /\ ~fs_ok
    IN IF size_ok
       THEN [window |-> set_position(set_size(w1, cs), cp), fullscreen |-> FALSE,
             cached_size |-> cs, cached_position |-> cp,
             panicked |-> FALSE, failed |-> fs_failed]
       ELSE [window |-> w1, fullscreen |-> TRUE,
             cached_size |-> cs, cached_position |-> cp,
             panicked |-> TRUE, failed |-> TRUE]

\* variant: the geometry cached after the window was made fullscreen
toggle_enter_cache_after(os, w, fs_ok, size_ok, bounds_ok) ==
    LET rect_size == <<DisplayRect.w, DisplayRect.h>>
        rect_position == <<DisplayRect.x, DisplayRect.y>>
        w1 == IF os = "windows"
              THEN IF bounds_ok /\ size_ok
                   THEN set_position(set_size([w EXCEPT !.resizable = FALSE], rect_size),
                                     rect_position)
                   ELSE w
              ELSE IF fs_ok THEN set_fullscreen(w, "Desktop") ELSE w
    IN [window |-> w1, fullscreen |-> TRUE,
        cached_size |-> w1.size, cached_position |-> w1.position,
        panicked |-> FALSE, failed |-> FALSE]

toggle_enter(os, w, fs_ok, size_ok, bounds_ok) ==
    LET rect_size == <<DisplayRect.w, DisplayRect.h>>
        rect_position == <<DisplayRect.x, DisplayRect.y>>
        w1 == [w EXCEPT !.resizable = FALSE]
    IN IF os = "windows"
       THEN IF bounds_ok
            THEN IF size_ok
                 THEN [window |-> set_position(set_size(w1, rect_size), rect_position),
                       fullscreen |-> TRUE,
                       cached_size |-> w.size, cached_position |-> w.position,
                       panicked |-> FALSE, failed |-> FALSE]
                 ELSE [window |-> w1, fullscreen |-> FALSE,
                       cached_size |-> w.size, cached_position |-> w.position,
                       panicked |-> TRUE, failed |-> TRUE]
            ELSE [window |-> w, fullscreen |-> TRUE,
                  cached_size |-> w.size, cached_position |-> w.position,
                  panicked |-> FALSE, failed |-> TRUE]
       ELSE [window |-> IF fs_ok THEN set_fullscreen(w, "Desktop") ELSE w,
             fullscreen |-> TRUE,
             cached_size |-> w.size, cached_position |-> w.position,
             panicked |-> FALSE, failed |-> ~fs_ok]

toggle_fullscreen(fs, os, w, cs, cp, fs_ok, size_ok, bounds_ok) ==
    IF fs
    THEN toggle_leave(os, w, cs, cp, fs_ok, size_ok)
    ELSE toggle_enter(os, w, fs_ok, size_ok, bounds_ok)

\* a call of toggle_fullscreen between two frames
ToggleFullscreen ==
    /\ pc = "frame_start"
    /\ fs_log.streak < MaxToggles
    /\ \E fs_ok \in BOOLEAN, size_ok \in BOOLEAN, bounds_ok \in BOOLEAN :
          LET r == toggle_fullscreen(fullscreen, target_os, window, cached_size,
                                     cached_position, fs_ok, size_ok, bounds_ok)
          IN /\ window' = r.window
             /\ fullscreen' = r.fullscreen
             /\ cached_size' = r.cached_size
             /\ cached_position' = r.cached_position
             /\ pc' = IF r.panicked THEN "panicked" ELSE pc
             /\ fs_log' = [streak |-> fs_log.streak + 1,
                           ok |-> fs_log.ok /\ ~r.failed,
                           failed |-> r.failed,
                           size |-> IF fs_log.streak = 0 THEN window.size ELSE fs_log.size,
                           position |-> IF fs_log.streak = 0 THEN window.position
                                        ELSE fs_log.position,
                           first_fullscreen |-> IF fs_log.streak = 0 THEN fullscreen
                                                ELSE fs_log.first_fullscreen,
                           last_fullscreen |-> fullscreen]
    /\ UNCHANGED <<pending, drained, cur, keyVars, key_call, mouseVars,
                   previous_size, scale_factor, target_os, schedVars, sink, sleep_log>>

(***************************************************************************)
(* ui_loop  (window.rs:283-336)                                            *)
(***************************************************************************)
\* window.rs:284-288, and the platform's queue as poll_iter() finds it
FrameStartUpTo(n) ==
    /\ pc = "frame_start"
    /\ pc' = "poll"
    /\ pending' \in 0..n
    /\ drained' = 0
    /\ cur' = NoEvent
    /\ keycode' = None
    /\ keytext' = None
    /\ key_index' = 0
    /\ overwritten' = NoOverwrite
    /\ ignore_text_this_frame' = FALSE
    /\ key_call' = NoKeyCall
    /\ sink' = <<>>
    /\ fs_log' = NoToggle
    /\ should_draw_log' = NoShouldDraw
    /\ sleep_log' = [NoSleep EXCEPT !.prev_over = sleep_log.elapsed > FrameLength]
    /\ UNCHANGED <<mouseVars, previous_size, fsVars, platformVars,
                   REDRAW_SCHEDULER, queued_calls>>

FrameStart == FrameStartUpTo(MaxBatch)

\* poll_iter() yields the next raw event
Drain(event) ==
    /\ pc = "poll"
    /\ pending > 0
    /\ pending' = pending - 1
    /\ drained' = drained + 1
    /\ cur' = event
    /\ UNCHANGED <<key_call, previous_size, fsVars, platformVars, fs_log, sleep_log>>

DispatchQuit ==
    /\ Drain(RawEvent("Quit", "", 0, 0))
    /\ handle_quit(drained + 1)
    /\ UNCHANGED keyVars

\* variant: a buffer keeps the first value written to it in the batch
assign_first(buffer, received) == IF buffer = None THEN received ELSE buffer

\* window.rs:297 keycode = received_keycode and window.rs:299 keytext = Some(text):
\* the buffer after the assignment
assign(buffer, received) == received

\* variant: the key-down dispatched at once instead of buffered
DispatchKeyDown_immediate ==
    \E received_keycode \in Keycodes \cup {None}, modifiers \in ModifierSets :
        /\ pc = "poll"
        /\ pending > 0
        /\ pending' = pending - 1
        /\ drained' = drained + 1
        /\ cur' = RawEvent("KeyDown", received_keycode, 0, 0)
        /\ handle_keyboard_input(received_keycode, None, modifiers, drained + 1)
        /\ UNCHANGED <<keyVars, mouseVars, schedVars, pc, previous_size, fsVars,
                       platformVars, fs_log, sleep_log>>

DispatchKeyDown ==
    \E received_keycode \in Keycodes \cup {None} :
        /\ Drain(RawEvent("KeyDown", received_keycode, 0, 0))
        /\ keycode' = assign(keycode, received_keycode)
        /\ key_index' = drained + 1
        /\ overwritten' = IF keycode # None THEN [overwritten EXCEPT !.keycode = keycode]
                          ELSE overwritten
        /\ UNCHANGED <<keytext, ignore_text_this_frame, mouseVars, schedVars, sink, pc>>

DispatchTextInput ==
    \E text \in Texts :
        /\ Drain(RawEvent("TextInput", text, 0, 0))
        /\ keytext' = assign(keytext, text)
        /\ key_index' = drained + 1
        /\ overwritten' = IF keytext # None THEN [overwritten EXCEPT !.text = keytext]
                          ELSE overwritten
        /\ UNCHANGED <<keycode, ignore_text_this_frame, mouseVars, schedVars, sink, pc>>

DispatchMouseMotion ==
    \E x \in PixelXs, y \in PixelYs :
        /\ Drain(RawEvent("MouseMotion", "", x, y))
        /\ handle_pointer_motion(x, y, drained + 1)
        /\ UNCHANGED keyVars

DispatchMouseButtonDown ==
    /\ Drain(RawEvent("MouseButtonDown", "", 0, 0))
    /\ handle_pointer_down(drained + 1)
    /\ UNCHANGED keyVars

DispatchMouseButtonUp ==
    /\ Drain(RawEvent("MouseButtonUp", "", 0, 0))
    /\ handle_pointer_up(drained + 1)
    /\ UNCHANGED keyVars

DispatchMouseWheel ==
    \E x \in WheelDeltas, y \in WheelDeltas :
        /\ Drain(RawEvent("MouseWheel", "", x, y))
        /\ handle_mouse_wheel(x, y, drained + 1)
        /\ UNCHANGED keyVars

DispatchFocusLost ==
    /\ Drain(RawEvent("Window", "FocusLost", 0, 0))
    /\ handle_focus_lost(drained + 1)
    /\ UNCHANGED keyVars

\* variant: focus-gained without the guard
DispatchFocusGained_noguard ==
    /\ Drain(RawEvent("Window", "FocusGained", 0, 0))
    /\ handle_focus_gained(drained + 1)
    /\ UNCHANGED keyVars

DispatchFocusGained ==
    /\ Drain(RawEvent("Window", "FocusGained", 0, 0))
    /\ ignore_text_this_frame' = TRUE
    /\ handle_focus_gained(drained + 1)
    /\ UNCHANGED <<keycode, keytext, key_index, overwritten>>

\* variant: other window events ignored like non-window events
DispatchWindowOther_ignored ==
    /\ Drain(RawEvent("Window", "Other", 0, 0))
    /\ UNCHANGED <<keyVars, mouseVars, schedVars, sink, pc>>

\* Event::Window { .. } with any other win_event
DispatchWindowOther ==
    /\ Drain(RawEvent("Window", "Other", 0, 0))
    /\ REDRAW_SCHEDULER' = queue_next_frame(REDRAW_SCHEDULER)
    /\ queued_calls' = queued_calls + 1
    /\ UNCHANGED <<keyVars, mouseVars, should_draw_log, sink, pc>>

\* _ => {}
DispatchOther ==
    /\ Drain(RawEvent("Other", "", 0, 0))
    /\ UNCHANGED <<keyVars, mouseVars, schedVars, sink, pc>>

\* window.rs:320-322, once poll_iter() is exhausted
KeyboardStep ==
    /\ pc = "poll"
    /\ pending = 0
    /\ pc' = "draw"
    /\ IF ~ignore_text_this_frame
       THEN \E modifiers \in ModifierSets :
                handle_keyboard_input(keycode, keytext, modifiers, key_index)
       ELSE UNCHANGED <<sink, key_call>>
    /\ cur' = NoEvent
    /\ UNCHANGED <<pending, drained, keyVars, mouseVars, previous_size,
                   fsVars, platformVars, schedVars, fs_log, sleep_log>>

\* variant: a draw step that tells the loop to stop when nothing was drawn
draw_frame_result_should_draw == should_draw(REDRAW_SCHEDULER)

\* draw_frame (window.rs:255-271) and the test of its result (window.rs:324-326)
draw_frame_result == TRUE

\* variant: a draw step that does not record the new size
DrawFrame_stale_size ==
    /\ pc = "draw"
    /\ should_draw_log' = [calls |-> queued_calls,
                           result |-> should_draw(REDRAW_SCHEDULER),
                           count |-> 1,
                           resized |-> previous_size # logical_size(window)]
    /\ REDRAW_SCHEDULER' = should_draw_clear(REDRAW_SCHEDULER)
    /\ queued_calls' = 0
    /\ pc' = "sleep"
    /\ UNCHANGED <<pending, drained, cur, keyVars, key_call, mouseVars, previous_size,
                   fsVars, platformVars, sink, fs_log, sleep_log>>

\* variant: should_draw() asked only when the size changed
DrawFrame_conditional ==
    /\ pc = "draw"
    /\ previous_size' = logical_size(window)
    /\ IF previous_size # logical_size(window)
       THEN /\ should_draw_log' = [calls |-> queued_calls,
                                   result |-> should_draw(REDRAW_SCHEDULER),
                                   count |-> 1, resized |-> TRUE]
            /\ REDRAW_SCHEDULER' = should_draw_clear(REDRAW_SCHEDULER)
            /\ queued_calls' = 0
       ELSE UNCHANGED <<REDRAW_SCHEDULER, queued_calls, should_draw_log>>
    /\ pc' = "sleep"
    /\ UNCHANGED <<pending, drained, cur, keyVars, key_call, mouseVars, fsVars,
                   platformVars, sink, fs_log, sleep_log>>

DrawFrame ==
    /\ pc = "draw"
    /\ previous_size' = logical_size(window)
    /\ should_draw_log' = [calls |-> queued_calls,
                           result |-> should_draw(REDRAW_SCHEDULER),
                           count |-> 1,
                           resized |-> previous_size # logical_size(window)]
    /\ REDRAW_SCHEDULER' = should_draw_clear(REDRAW_SCHEDULER)
    /\ queued_calls' = 0
    /\ pc' = IF draw_frame_result THEN "sleep" ELSE "exited"
    /\ UNCHANGED <<pending, drained, cur, keyVars, key_call, mouseVars, fsVars,
                   platformVars, sink, fs_log, sleep_log>>

\* variant: the remainder without the test elapsed < frame_length
frame_sleep_unguarded(elapsed) == FrameLength - elapsed

\* window.rs:331-333: the time slept for a frame body that took elapsed
frame_sleep(elapsed) ==
    IF elapsed < FrameLength THEN FrameLength - elapsed ELSE 0

\* window.rs:328-334: the pacing, and the end of the iteration, where its locals
\* and the records kept of it go out of scope
FramePacing ==
    /\ pc = "sleep"
    /\ pc' = "frame_start"
    /\ \E elapsed \in ElapsedTimes :
          sleep_log' = [count |-> 1, elapsed |-> elapsed, slept |-> frame_sleep(elapsed),
                        prev_over |-> sleep_log.prev_over]
    /\ drained' = 0
    /\ keycode' = None
    /\ keytext' = None
    /\ key_index' = 0
    /\ overwritten' = NoOverwrite
    /\ ignore_text_this_frame' = FALSE
    /\ key_call' = NoKeyCall
    /\ sink' = <<>>
    /\ should_draw_log' = NoShouldDraw
    /\ UNCHANGED <<pending, cur, mouseVars, previous_size, fsVars, platformVars,
                   REDRAW_SCHEDULER, queued_calls, fs_log>>

\* the user resizes the window between two frames
PlatformResize ==
    /\ pc = "frame_start"
    /\ window.fullscreen_type = "Off"
    /\ window.resizable
    /\ \E sz \in UserSizes \cup {InitialLogicalSize} :
          /\ sz # window.size
          /\ window' = [window EXCEPT !.size = sz, !.windowed_size = sz]
    /\ fs_log' = NoToggle
    /\ UNCHANGED <<loopVars, keyVars, key_call, mouseVars, previous_size, fsVars,
                   scale_factor, target_os, schedVars, sink, sleep_log>>

FrameBody ==
    \/ DispatchQuit
    \/ DispatchKeyDown
    \/ DispatchTextInput
    \/ DispatchMouseMotion
    \/ DispatchMouseButtonDown
    \/ DispatchMouseButtonUp
    \/ DispatchMouseWheel
    \/ DispatchFocusLost
    \/ DispatchFocusGained
    \/ DispatchWindowOther
    \/ DispatchOther
    \/ KeyboardStep
    \/ DrawFrame
    \/ FramePacing
    \/ PlatformResize

Next == FrameStart \/ FrameBody

Spec == Init /\ [][Next]_vars

\* the loop together with toggle_fullscreen calls, for either build
InitFS == \E os \in TargetOS : InitOn(os) /\ scale_factor = 1
FrameStartFS == FrameStartUpTo(MaxBatchFS)
NextFS == FrameStartFS \/ FrameBody \/ ToggleFullscreen
SpecFS == InitFS /\ [][NextFS]_vars

(***************************************************************************)
(* Helpers of the properties                                               *)
(***************************************************************************)
\* the events delivered for raw event number n of this iteration
DeliveredFor(n) == SelectSeq(sink, LAMBDA e : e.cause = n)
Delivered(type) == \E i \in 1..Len(sink) : sink[i].ev.type = type
\* the step is the dispatch of a raw event of this kind
Dispatches(kind) == pc = "poll" /\ drained' = drained + 1 /\ cur'.kind = kind
\* what the step appended to the sink
Appended == SubSeq(sink', Len(sink) + 1, Len(sink'))
Directions == {"Up", "Right", "Down", "Left"}

(***************************************************************************)
(* C1  Redraw coalescing                                                   *)
(***************************************************************************)
\* C1: a should_draw() call returns true exactly when queue_next_frame() was called
\* at least once since the should_draw() call before it, however many times.
Thm_C1 ==
    should_draw_log.count = 1 =>
        should_draw_log.result = (should_draw_log.calls >= 1)

\* two queue_next_frame() calls coalesced into one true should_draw()
Wit_C1 ==
    /\ should_draw_log.count = 1
    /\ should_draw_log.calls >= 2
    /\ should_draw_log.result = TRUE

(***************************************************************************)
(* C2  Quit ends the process before the rest of the batch                  *)
(***************************************************************************)
\* C2: once a Quit raw event is drained the process has exited: Quit is the last event
\* the sink received, the Quit raw event is the last one dispatched although more are
\* queued, no key dispatch and no draw step ran in that iteration.
Thm_C2 ==
    Delivered("Quit") =>
        /\ pc = "exited"
        /\ sink[Len(sink)].ev = Quit
        /\ cur.kind = "Quit"
        /\ sink[Len(sink)].cause = drained
        /\ ~key_call.called
        /\ should_draw_log.count = 0

\* the process exited on a Quit that was not the last raw event of its batch
Wit_C2 ==
    /\ pc = "exited"
    /\ Delivered("Quit")
    /\ pending > 0

(***************************************************************************)
(* C3  Delivery order                                                      *)
(***************************************************************************)
\* C3 as claimed: the sink receives the events of an iteration in the order of the raw
\* events that caused them.
Orig_C3 ==
    \A i, j \in 1..Len(sink) : i < j => sink[i].cause <= sink[j].cause

\* C3: the events of the raw events that are dispatched at once (quit, pointer, wheel,
\* focus) reach the sink in raw order; the KeyboardInput of the iteration is delivered
\* after the poll loop ended, as the last event, whatever followed its key-down.
Thm_C3 ==
    /\ \A i, j \in 1..Len(sink) :
          i < j => /\ sink[i].ev.type # "KeyboardInput"
                   /\ sink[j].ev.type # "KeyboardInput" => sink[i].cause <= sink[j].cause
    /\ Delivered("KeyboardInput") => pc # "poll" /\ pending = 0

\* a KeyboardInput delivered after the event of a raw event that followed its key-down
Wit_C3 ==
    /\ Len(sink) >= 2
    /\ sink[Len(sink)].ev.type = "KeyboardInput"
    /\ sink[Len(sink) - 1].cause > sink[Len(sink)].cause

(***************************************************************************)
(* C4  Focus-regain guard                                                  *)
(***************************************************************************)
\* C4: an iteration that drained a focus-gained event makes no handle_keyboard_input
\* call and delivers no KeyboardInput; an iteration that drained none makes the call
\* with the buffers of that iteration; every iteration starts with empty buffers and
\* the guard off.
Thm_C4 ==
    /\ pc \in {"draw", "sleep"} =>
          IF Delivered("FocusGained")
          THEN ~key_call.called /\ ~Delivered("KeyboardInput")
          ELSE key_call = [called |-> TRUE, keycode |-> keycode, text |-> keytext]
    /\ (pc = "poll" /\ drained = 0) =>
          keycode = None /\ keytext = None /\ ~ignore_text_this_frame

\* a key-down drained before the focus-gained event was dropped
Wit_C4 ==
    /\ pc = "draw"
    /\ keycode # None
    /\ \E i \in 1..Len(sink) :
          sink[i].ev.type = "FocusGained" /\ sink[i].cause > key_index
    /\ ~key_call.called

(***************************************************************************)
(* C5, C6  Pointer motion                                                  *)
(***************************************************************************)
\* C5: a pointer motion while mouse_down is false delivers nothing.
Thm_C5 ==
    [][(Dispatches("MouseMotion") /\ ~mouse_down) => sink' = sink]_vars

\* a motion with the button up that moved the pointer
Wit_C5 ==
    /\ cur.kind = "MouseMotion"
    /\ ~mouse_down
    /\ mouse_position # <<0, 0>>
    /\ DeliveredFor(drained) = <<>>

\* C6: a pointer motion while mouse_down is true delivers nothing when the logical
\* position is the previous one and exactly one MouseDragged with the new position
\* otherwise; mouse_position becomes the new logical position.
Thm_C6 ==
    [][(Dispatches("MouseMotion") /\ mouse_down) =>
          LET new == <<to_logical(pixel_to_cell(cur'.x), scale_factor),
                       to_logical(pixel_to_cell(cur'.y), scale_factor)>>
          IN /\ mouse_position' = new
             /\ Appended = IF new = mouse_position THEN <<>>
                           ELSE <<[ev |-> MouseDragged(new[1], new[2]),
                                   cause |-> drained']>>
             /\ SubSeq(sink', 1, Len(sink)) = sink]_vars

\* a drag to a new position
Wit_C6 ==
    /\ cur.kind = "MouseMotion"
    /\ mouse_down
    /\ mouse_position # <<0, 0>>
    /\ DeliveredFor(drained) =
          <<[ev |-> MouseDragged(mouse_position[1], mouse_position[2]), cause |-> drained]>>

(***************************************************************************)
(* C7, C8  Mouse wheel                                                     *)
(***************************************************************************)
\* the direction the claim gives an axis value
WheelExpects(d, x, y) ==
    \/ d = "Up" /\ y > 0
    \/ d = "Down" /\ y < 0
    \/ d = "Right" /\ x > 0
    \/ d = "Left" /\ x < 0

\* C7: a wheel event delivers one Scroll for each non-zero axis, in the direction of
\* its sign, none for a zero axis, each with the current mouse_position, and changes
\* no field of the WindowWrapper.
Thm_C7 ==
    [][Dispatches("MouseWheel") =>
          /\ SubSeq(sink', 1, Len(sink)) = sink
          /\ \A i \in 1..Len(Appended) :
                /\ Appended[i].ev.type = "Scroll"
                /\ <<Appended[i].ev.x, Appended[i].ev.y>> = mouse_position
                /\ Appended[i].cause = drained'
          /\ \A d \in Directions :
                Cardinality({i \in 1..Len(Appended) : Appended[i].ev.arg = d})
                    = IF WheelExpects(d, cur'.x, cur'.y) THEN 1 ELSE 0
          /\ UNCHANGED <<mouse_down, mouse_position, previous_size, fullscreen,
                         cached_size, cached_position>>]_vars

\* a diagonal wheel event delivered two Scroll events at a position other than (0,0)
Wit_C7 ==
    /\ cur.kind = "MouseWheel"
    /\ cur.x # 0 /\ cur.y # 0
    /\ mouse_position # <<0, 0>>
    /\ Len(DeliveredFor(drained)) = 2

\* C8 as claimed: for a wheel event with both axes non-zero the horizontal Scroll is
\* delivered before the vertical one.
Orig_C8 ==
    (cur.kind = "MouseWheel" /\ cur.x # 0 /\ cur.y # 0) =>
        /\ Len(DeliveredFor(drained)) = 2
        /\ DeliveredFor(drained)[1].ev.arg \in {"Left", "Right"}
        /\ DeliveredFor(drained)[2].ev.arg \in {"Up", "Down"}

\* C8: for a wheel event with both axes non-zero the vertical Scroll is delivered
\* before the horizontal one.
Thm_C8 ==
    (cur.kind = "MouseWheel" /\ cur.x # 0 /\ cur.y # 0) =>
        /\ Len(DeliveredFor(drained)) = 2
        /\ DeliveredFor(drained)[1].ev.arg \in {"Up", "Down"}
        /\ DeliveredFor(drained)[2].ev.arg \in {"Left", "Right"}

\* wheel (dx=-3, dy=-2 in sign) delivered Scroll(Down) and then Scroll(Left)
Wit_C8 ==
    /\ cur.kind = "MouseWheel"
    /\ cur.x < 0 /\ cur.y < 0
    /\ DeliveredFor(drained) =
          <<[ev |-> Scroll("Down", mouse_position[1], mouse_position[2]), cause |-> drained],
            [ev |-> Scroll("Left", mouse_position[1], mouse_position[2]), cause |-> drained]>>

(***************************************************************************)
(* C9, C10  toggle_fullscreen                                              *)
(***************************************************************************)
\* C9: two successive toggle_fullscreen calls from the windowed state, every platform
\* call succeeding, leave the window's size and position as they were and fullscreen
\* false.
Thm_C9 ==
    (fs_log.streak = 2 /\ fs_log.ok /\ ~fs_log.first_fullscreen) =>
        /\ window.size = fs_log.size
        /\ window.position = fs_log.position
        /\ fullscreen = FALSE
        /\ pc # "panicked"

\* a round trip of a window the user had resized
Wit_C9 ==
    /\ fs_log.streak = 2 /\ fs_log.ok /\ ~fs_log.first_fullscreen
    /\ fs_log.size \in UserSizes
    /\ window.size = fs_log.size
    /\ cached_size = fs_log.size

\* C10 as claimed: a toggle_fullscreen call in which a platform call failed completes,
\* with the fullscreen flag flipped and the loop still running.
Orig_C10 ==
    (fs_log.streak >= 1 /\ fs_log.failed) =>
        /\ pc # "panicked"
        /\ fullscreen = ~fs_log.last_fullscreen

(***************************************************************************)
(* C11  Frame pacing                                                       *)
(***************************************************************************)
\* C11: the sleep that ends an iteration is max(0, FrameLength - elapsed) for the time
\* elapsed since that iteration's frame start, whatever the iteration before took.
Thm_C11 ==
    sleep_log.count = 1 =>
        /\ sleep_log.elapsed >= FrameLength => sleep_log.slept = 0
        /\ sleep_log.elapsed < FrameLength =>
              sleep_log.slept = FrameLength - sleep_log.elapsed
        /\ sleep_log.slept >= 0

\* an iteration within budget, after one that exceeded it, sleeps its full remainder
Wit_C11 ==
    /\ sleep_log.count = 1
    /\ sleep_log.prev_over
    /\ sleep_log.elapsed < FrameLength
    /\ sleep_log.slept = FrameLength - sleep_log.elapsed

(***************************************************************************)
(* C12  Focus gained forces a redraw                                       *)
(***************************************************************************)
\* C12: the dispatch of a focus-gained event delivers exactly one FocusGained and
\* leaves a frame requested, and the draw step of an iteration that drained a
\* focus-gained event finds should_draw() true.
Thm_C12 ==
    /\ (cur.kind = "Window" /\ cur.arg = "FocusGained") =>
          /\ DeliveredFor(drained) = <<[ev |-> FocusGained, cause |-> drained]>>
          /\ should_draw(REDRAW_SCHEDULER)
    /\ (should_draw_log.count = 1 /\ Delivered("FocusGained")) =>
          should_draw_log.result = TRUE

\* a draw step whose only redraw request came from the focus-gained event
Wit_C12 ==
    /\ should_draw_log.count = 1
    /\ Delivered("FocusGained")
    /\ should_draw_log.calls = 1
    /\ should_draw_log.result = TRUE

(***************************************************************************)
(* C13  No key, no KeyboardInput                                           *)
(***************************************************************************)
\* C13: an iteration whose batch held no key-down and no text-input event calls the
\* encoder with no keycode and no text and delivers no KeyboardInput, whatever the
\* modifier state.
Thm_C13 ==
    (pc \in {"draw", "sleep"} /\ key_index = 0) =>
        /\ key_call.called => key_call.keycode = None /\ key_call.text = None
        /\ ~Delivered("KeyboardInput")
        /\ \A modifiers \in ModifierSets :
              produce_keybinding_string(None, None, modifiers) = None

\* the key dispatch of a batch of other events delivered nothing
Wit_C13 ==
    /\ pc = "draw"
    /\ key_index = 0
    /\ drained > 0
    /\ key_call.called
    /\ Len(sink) > 0

(***************************************************************************)
(* C14  The loop ends on Quit only                                         *)
(***************************************************************************)
\* C14: every draw step lets the loop continue, and the process ends only in the
\* delivery of Quit.
Thm_C14 ==
    /\ should_draw_log.count = 1 => pc = "sleep"
    /\ pc \notin {"frame_start", "poll", "draw", "sleep"} =>
          pc = "exited" /\ Delivered("Quit")

\* a draw step that had nothing to draw and continued
Wit_C14 ==
    /\ should_draw_log.count = 1
    /\ ~should_draw_log.result
    /\ pc = "sleep"

(***************************************************************************)
(* C15  No redraw request is lost                                          *)
(***************************************************************************)
\* C15: the flag is set exactly while queue_next_frame() calls wait for a
\* should_draw(); every iteration's draw step has made one should_draw() call, which
\* answered true if any call waited, and leaves the flag clear.
Thm_C15 ==
    /\ should_draw(REDRAW_SCHEDULER) = (queued_calls > 0)
    /\ pc = "sleep" =>
          /\ should_draw_log.count = 1
          /\ should_draw_log.result = (should_draw_log.calls > 0)
          /\ ~should_draw(REDRAW_SCHEDULER)
          /\ queued_calls = 0

\* a request made by an unclassified window event was served by the same iteration
Wit_C15 ==
    /\ pc = "sleep"
    /\ should_draw_log.calls > 0
    /\ should_draw_log.result
    /\ ~Delivered("FocusGained")
    /\ ~should_draw_log.resized

(***************************************************************************)
(* C16  Pointer buttons                                                    *)
(***************************************************************************)
\* C16: a button-down delivers one MousePressed and a button-up one MouseReleased, each
\* at the unchanged mouse_position; mouse_down becomes true on a button-down, false on
\* a button-up and changes in no other step, and mouse_position changes in pointer
\* motions only.
Thm_C16 ==
    [][/\ Dispatches("MouseButtonDown") =>
             /\ sink' = Append(sink, [ev |-> MousePressed(mouse_position[1], mouse_position[2]),
                                      cause |-> drained'])
             /\ mouse_down' = TRUE
             /\ mouse_position' = mouse_position
       /\ Dispatches("MouseButtonUp") =>
             /\ sink' = Append(sink, [ev |-> MouseReleased(mouse_position[1], mouse_position[2]),
                                      cause |-> drained'])
             /\ mouse_down' = FALSE
             /\ mouse_position' = mouse_position
       /\ mouse_down' # mouse_down =>
             Dispatches("MouseButtonDown") \/ Dispatches("MouseButtonUp")
       /\ mouse_position' # mouse_position => Dispatches("MouseMotion")]_vars

\* a release at a position a motion had set
Wit_C16 ==
    /\ cur.kind = "MouseButtonUp"
    /\ ~mouse_down
    /\ mouse_position # <<0, 0>>
    /\ DeliveredFor(drained) =
          <<[ev |-> MouseReleased(mouse_position[1], mouse_position[2]), cause |-> drained]>>

(***************************************************************************)
(* C17  Window events                                                      *)
(***************************************************************************)
\* C17: a window event other than focus-lost and focus-gained makes one
\* queue_next_frame() call and delivers nothing; focus-lost delivers one FocusLost and
\* requests no frame; a raw event of no classified kind does neither.
Thm_C17 ==
    [][/\ (Dispatches("Window") /\ cur'.arg = "Other") =>
             /\ sink' = sink
             /\ queued_calls' = queued_calls + 1
             /\ should_draw(REDRAW_SCHEDULER')
       /\ (Dispatches("Window") /\ cur'.arg = "FocusLost") =>
             /\ sink' = Append(sink, [ev |-> FocusLost, cause |-> drained'])
             /\ queued_calls' = queued_calls
             /\ REDRAW_SCHEDULER' = REDRAW_SCHEDULER
       /\ Dispatches("Other") =>
             /\ sink' = sink
             /\ queued_calls' = queued_calls
             /\ REDRAW_SCHEDULER' = REDRAW_SCHEDULER]_vars

\* an unclassified window event requested the only frame of its iteration
Wit_C17 ==
    /\ cur.kind = "Window" /\ cur.arg = "Other"
    /\ queued_calls = 1
    /\ should_draw(REDRAW_SCHEDULER)
    /\ sink = <<>>

(***************************************************************************)
(* C18  Key buffering                                                      *)
(***************************************************************************)
\* C18: each key-down overwrites keycode and each text-input overwrites keytext, no
\* other dispatch touches them; handle_keyboard_input is called at most once in an
\* iteration, when the batch is drained, with the two buffers; each iteration starts
\* with both buffers empty.
Thm_C18 ==
    [][/\ Dispatches("KeyDown") => keycode' = cur'.arg /\ keytext' = keytext
       /\ Dispatches("TextInput") => keytext' = cur'.arg /\ keycode' = keycode
       /\ (pc = "poll" /\ drained' = drained + 1
              /\ cur'.kind \notin {"KeyDown", "TextInput"}) =>
             keycode' = keycode /\ keytext' = keytext
       /\ pc = "poll" /\ drained' = drained + 1 => key_call' = key_call
       /\ (key_call'.called /\ key_call' # key_call) =>
             /\ ~key_call.called
             /\ pc = "poll" /\ pending = 0 /\ pc' = "draw"
             /\ key_call'.keycode = keycode /\ key_call'.text = keytext
       /\ pc' = "poll" /\ pc # "poll" =>
             keycode' = None /\ keytext' = None /\ ~key_call'.called]_vars

\* the batch held two text-input events with different texts: the one call carried
\* the text of the second, and the text of the first was delivered nowhere
Wit_C18 ==
    /\ pc = "draw"
    /\ drained = 2
    /\ key_index = 2
    /\ overwritten.text = "a"
    /\ key_call = [called |-> TRUE, keycode |-> None, text |-> "b"]
    /\ sink = <<[ev |-> KeyboardInput("b"), cause |-> 2]>>

(***************************************************************************)
(* C19  Cached geometry                                                    *)
(***************************************************************************)
\* C19: cached_size and cached_position change only in a toggle_fullscreen call made
\* while fullscreen is false, which sets them to the window's size and position of
\* that moment; fullscreen changes only in a toggle_fullscreen call.
Thm_C19 ==
    [][/\ (cached_size' # cached_size \/ cached_position' # cached_position) =>
             /\ fs_log'.streak = fs_log.streak + 1
             /\ ~fullscreen
       /\ fullscreen' # fullscreen => fs_log'.streak = fs_log.streak + 1
       /\ (fullscreen' /\ ~fullscreen) =>
             /\ cached_size' = window.size
             /\ cached_position' = window.position]_vars

\* the geometry cached on entry is still there after raw events were dispatched
Wit_C19 ==
    /\ fullscreen
    /\ cached_size \in UserSizes
    /\ cached_position = CenteredPosition
    /\ window.size # cached_size
    /\ pc = "poll"
    /\ drained > 0
    /\ cur.kind \in {"MouseWheel", "MouseMotion", "KeyDown", "Window"}

(***************************************************************************)
(* C20  Resize tracking                                                    *)
(***************************************************************************)
\* C20: the draw step leaves previous_size equal to the window's logical size,
\* delivers nothing and requests no frame, also when it found the size changed.
Thm_C20 ==
    [][pc = "draw" =>
          /\ previous_size' = logical_size(window')
          /\ sink' = sink
          /\ ~should_draw(REDRAW_SCHEDULER')
          /\ queued_calls' = 0
          /\ should_draw_log'.result = (queued_calls > 0)]_vars

\* a draw step that found the size changed and, with no frame requested, drew nothing
Wit_C20 ==
    /\ pc = "sleep"
    /\ should_draw_log.resized
    /\ previous_size \in UserSizes
    /\ ~should_draw_log.result

====
